---- MODULE Spec2Model ----
(***************************************************************************)
(* DD1750 form renderer (dd1750_generator.py) and the /generate handler    *)
(* that calls it (app.py); the extraction credits and access codes of      *)
(* app.py; the deduplication of vision_extractor.py.                       *)
(*                                                                         *)
(* Text is a sequence of one-character strings.  Coordinates are kept in   *)
(* hundredths of a point, so 616.0 is 61600 and ROW_H = 29.25 is 2925;     *)
(* every coordinate the code computes is a multiple of 0.25 and therefore  *)
(* exact both in binary floating point and in this scale.                  *)
(***************************************************************************)
EXTENDS Integers, Sequences, FiniteSets, TLC

VARIABLES
    pc,           \* per request: where the invocation stands
    via,          \* per request: "web" (/generate handler) or "lib" (direct call)
    items,        \* per request: the items argument of generate_dd1750
    header,       \* per request: the header argument (None or a DD1750Header)
    total_pages,  \* per request: local total_pages
    page_num,     \* per request: local page_num of the for loop (0-indexed)
    packet,       \* per request: the overlay being composed (canvas draws)
    writer,       \* per request: pages added to the PdfWriter so far
    outFile,      \* per request: pages in the file at its output_path
    returned,     \* per request: item count returned by generate_dd1750, or None
    response,     \* per request: HTTP status of the /generate response, 0 if none
    stored,       \* per request: TEMP_STORAGE[user_output] points at output_path
    template      \* the shared template file blank_1750.pdf

renderVars == <<pc, via, items, header, total_pages, page_num, packet, writer,
                outFile, returned, response, stored, template>>

VARIABLES
    USER_DATA,    \* app.py USER_DATA: user_id -> extractions_used, credits, total_paid
    ACCESS_CODES, \* app.py ACCESS_CODES: code -> credits, used, used_by
    api_key,      \* ANTHROPIC_API_KEY is set
    th,           \* per server thread: the request it handles and its locals
    served,       \* requests and calls begun so far
    hist,         \* per user: extractions started, credits redeemed, refunds
    all_items,    \* extract_items_from_pdf: items extracted from the pages so far
    deduped       \* extract_items_from_pdf: the list returned, or None

creditVars == <<USER_DATA, ACCESS_CODES, api_key, th, served, hist>>

dedupVars == <<all_items, deduped>>

vars == <<renderVars, creditVars, dedupVars>>

-----------------------------------------------------------------------------
(* Bounds of the model *)

\* most items of one request in the single-request specification
MaxItems == 37
\* most items of one request in the two-request specification
MaxConcItems == 19

Requests == {1, 2}

\* Optional[...]: None is the empty sequence, a value v is <<v>>
None == <<>>
Some(v) == <<v>>

-----------------------------------------------------------------------------
(* Layout constants, dd1750_generator.py lines 12-50, in hundredths of a point *)

ROWS_PER_PAGE == 18
PAGE_W == 61200
PAGE_H == 79200

X_BOX_L == 4400
X_BOX_R == 8800
X_CONTENT_L == 8800
X_CONTENT_R == 36500
X_UOI_L == 36500
X_UOI_R == 40850
X_INIT_L == 40850
X_INIT_R == 45350
X_SPARES_L == 45350
X_SPARES_R == 51450
X_TOTAL_L == 51450
X_TOTAL_R == 56600

Y_TABLE_TOP_LINE == 61600
Y_TABLE_BOTTOM_LINE == 8950
\* the row height taken over the page instead of over the table
ROW_H_OverPage == PAGE_H \div ROWS_PER_PAGE
ROW_H == (Y_TABLE_TOP_LINE - Y_TABLE_BOTTOM_LINE) \div ROWS_PER_PAGE
PAD_X == 300

HEADER_Y == [packed_by |-> 73500, no_boxes |-> 73500, req_no |-> 73500,
             order_no |-> 71000, end_item |-> 68500, date |-> 68500,
             page |-> 66000]

HEADER_X == [packed_by |-> 9500, no_boxes |-> 24000, req_no |-> 37000,
             order_no |-> 37000, end_item |-> 9500, date |-> 50000,
             page_num |-> 50000, page_total |-> 54500]

\* cert_y = 55.0 and the two certifier x positions of _draw_header
CERT_Y == 5500
CERT_NAME_X == 9500
CERT_TITLE_X == 28000

\* the display limits: item.description[:50], header.end_item[:60]
DESC_MAX == 50
END_ITEM_MAX == 60

-----------------------------------------------------------------------------
(* Python built-ins the renderer uses *)

Digits == <<"0", "1", "2", "3", "4", "5", "6", "7", "8", "9">>

\* str(n) for an int n >= 0: its decimal digits
RECURSIVE Str(_)
Str(n) == IF n < 10 THEN <<Digits[n + 1]>>
          ELSE Str(n \div 10) \o <<Digits[(n % 10) + 1]>>

\* s[:k]
Prefix(s, k) == SubSeq(s, 1, IF Len(s) < k THEN Len(s) ELSE k)

\* min(a, b)
Min(a, b) == IF a <= b THEN a ELSE b

\* math.ceil(n / d) for n >= 0, d > 0
\* the quotient rounded down
Ceil_Floor(n, d) == n \div d
Ceil(n, d) == IF n % d = 0 THEN n \div d ELSE (n \div d) + 1

\* dict.get(key, default)
Get(d, key, default) == IF key \in DOMAIN d THEN d[key] ELSE default

-----------------------------------------------------------------------------
(* reportlab canvas: the current font and the text drawn so far, in order *)

NewCanvas == [font |-> 0, draws |-> <<>>]

SetFont(can, size) == [can EXCEPT !.font = size]

DrawString(can, x, y, text) ==
    [can EXCEPT !.draws = Append(@, [text |-> text, x |-> x, y |-> y,
                                     font |-> can.font, align |-> "left"])]

DrawCentredString(can, x, y, text) ==
    [can EXCEPT !.draws = Append(@, [text |-> text, x |-> x, y |-> y,
                                     font |-> can.font, align |-> "centred"])]

-----------------------------------------------------------------------------
(* dataclasses DD1750Item and DD1750Header *)

DD1750Item(line_no, description, nsn, unit_of_issue, initial_qty, spares_qty, total_qty) ==
    [line_no |-> line_no, description |-> description, nsn |-> nsn,
     unit_of_issue |-> unit_of_issue, initial_qty |-> initial_qty,
     spares_qty |-> spares_qty, total_qty |-> total_qty]

DD1750Header(packed_by, no_boxes, requisition_no, order_no, end_item, date, certifier_name, certifier_title) ==
    [packed_by |-> packed_by, no_boxes |-> no_boxes,
     requisition_no |-> requisition_no, order_no |-> order_no,
     end_item |-> end_item, date |-> date,
     certifier_name |-> certifier_name, certifier_title |-> certifier_title]

-----------------------------------------------------------------------------
(* _draw_header, dd1750_generator.py lines 176-217.  pn is the 1-indexed page *)

\* `if header.f: can.drawString(x, y, header.f)`: a field is drawn when it is
\* a non-empty string
\* (the field drawn whether or not it is empty)
DrawField_Always(can, x, y, text) == DrawString(can, x, y, text)
DrawField(can, x, y, text) ==
    IF text # <<>> THEN DrawString(can, x, y, text) ELSE can

DrawHeader(can, h, pn, total) ==
    LET c0 == SetFont(can, 10)
        c1 == DrawField(c0, HEADER_X.packed_by, HEADER_Y.packed_by, h.packed_by)
        c2 == DrawField(c1, HEADER_X.no_boxes, HEADER_Y.no_boxes, h.no_boxes)
        c3 == DrawField(c2, HEADER_X.req_no, HEADER_Y.req_no, h.requisition_no)
        c4 == DrawField(c3, HEADER_X.order_no, HEADER_Y.order_no, h.order_no)
        c5 == IF h.end_item # <<>>
              THEN DrawString(SetFont(c4, 8), HEADER_X.end_item, HEADER_Y.end_item,
                              Prefix(h.end_item, END_ITEM_MAX))
              ELSE c4
        c6 == SetFont(c5, 10)
        c7 == DrawField(c6, HEADER_X.date, HEADER_Y.date, h.date)
        c8 == DrawString(c7, HEADER_X.page_num, HEADER_Y.page, Str(pn))
        c9 == DrawString(c8, HEADER_X.page_total, HEADER_Y.page, Str(total))
    IN  IF h.certifier_name # <<>> \/ h.certifier_title # <<>>
        THEN LET d0 == SetFont(c9, 9)
                 d1 == DrawField(d0, CERT_NAME_X, CERT_Y, h.certifier_name)
             IN  DrawField(d1, CERT_TITLE_X, CERT_Y, h.certifier_title)
        ELSE c9

\* (the header and the page numbers drawn on the first page only)
DrawPageHead_FirstPageOnly(can, h, pnum, total) ==
    IF pnum # 0 THEN can
    ELSE IF h # None
    THEN DrawHeader(can, h[1], pnum + 1, total)
    ELSE LET c0 == SetFont(can, 10)
             c1 == DrawString(c0, HEADER_X.page_num, HEADER_Y.page, Str(pnum + 1))
         IN  DrawString(c1, HEADER_X.page_total, HEADER_Y.page, Str(total))

\* generate_dd1750 lines 117-124: the header, or just the page numbers
DrawPageHead(can, h, pnum, total) ==
    IF h # None
    THEN DrawHeader(can, h[1], pnum + 1, total)
    ELSE LET c0 == SetFont(can, 10)
             c1 == DrawString(c0, HEADER_X.page_num, HEADER_Y.page, Str(pnum + 1))
         IN  DrawString(c1, HEADER_X.page_total, HEADER_Y.page, Str(total))

-----------------------------------------------------------------------------
(* generate_dd1750 lines 126-159: the rows of one page *)

\* line 127 and 130: y of row i (0-indexed within the page)
RowY(i) == (Y_TABLE_TOP_LINE - 500) - (i * ROW_H)

\* (the description drawn whole)
Truncate_Whole(description) == description

\* line 140
Truncate(description) ==
    IF Len(description) > DESC_MAX THEN Prefix(description, DESC_MAX) ELSE description

NsnLabel == <<"N", "S", "N", ":", " ">>

\* (the NSN line drawn for every item)
DrawRow_NsnAlways(can, i, item) ==
    LET y      == RowY(i)
        y_desc == y - 700
        y_nsn  == y - 1700
        c1 == DrawCentredString(SetFont(can, 8), (X_BOX_L + X_BOX_R) \div 2, y_desc,
                                Str(item.line_no))
        c2 == DrawString(SetFont(c1, 7), X_CONTENT_L + PAD_X, y_desc,
                         Truncate(item.description))
        c3 == DrawString(SetFont(c2, 6), X_CONTENT_L + PAD_X, y_nsn,
                         NsnLabel \o item.nsn)
        c4 == DrawCentredString(SetFont(c3, 8), (X_UOI_L + X_UOI_R) \div 2, y_desc,
                                item.unit_of_issue)
        c5 == DrawCentredString(c4, (X_INIT_L + X_INIT_R) \div 2, y_desc,
                                Str(item.initial_qty))
        c6 == DrawCentredString(c5, (X_SPARES_L + X_SPARES_R) \div 2, y_desc,
                                Str(item.spares_qty))
    IN  DrawCentredString(c6, (X_TOTAL_L + X_TOTAL_R) \div 2, y_desc,
                          Str(item.total_qty))

\* lines 130-159: one item at row i
DrawRow(can, i, item) ==
    LET y      == RowY(i)
        y_desc == y - 700
        y_nsn  == y - 1700
        c1 == DrawCentredString(SetFont(can, 8), (X_BOX_L + X_BOX_R) \div 2, y_desc,
                                Str(item.line_no))
        c2 == DrawString(SetFont(c1, 7), X_CONTENT_L + PAD_X, y_desc,
                         Truncate(item.description))
        c3 == IF item.nsn # <<>>
              THEN DrawString(SetFont(c2, 6), X_CONTENT_L + PAD_X, y_nsn,
                              NsnLabel \o item.nsn)
              ELSE c2
        c4 == DrawCentredString(SetFont(c3, 8), (X_UOI_L + X_UOI_R) \div 2, y_desc,
                                item.unit_of_issue)
        c5 == DrawCentredString(c4, (X_INIT_L + X_INIT_R) \div 2, y_desc,
                                Str(item.initial_qty))
        c6 == DrawCentredString(c5, (X_SPARES_L + X_SPARES_R) \div 2, y_desc,
                                Str(item.spares_qty))
    IN  DrawCentredString(c6, (X_TOTAL_L + X_TOTAL_R) \div 2, y_desc,
                          Str(item.total_qty))

\* the first n sequences of seqs, joined in order
RECURSIVE Join(_, _)
Join(seqs, n) == IF n = 0 THEN <<>> ELSE Join(seqs, n - 1) \o seqs[n]

\* line 129: for i, item in enumerate(page_items).  A row sets its font
\* before its first draw, so its draws do not depend on the draws before it:
\* each row is composed on the canvas as the page head left it, and the rows'
\* draws follow the head's in row order.
DrawRows(can, page_items) ==
    LET blank == [can EXCEPT !.draws = <<>>]
        rows  == [k \in 1..Len(page_items) |->
                     DrawRow(blank, k - 1, page_items[k]).draws]
    IN  [can EXCEPT !.draws = @ \o Join(rows, Len(page_items))]

\* items[a:b] for 0 <= a
Slice(s, a, b) == SubSeq(s, a + 1, Min(b, Len(s)))

\* (the slice of a page ending one item early)
PageItems_ShortEnd(its, pnum) ==
    LET start_idx == pnum * ROWS_PER_PAGE
        end_idx   == Min((pnum + 1) * ROWS_PER_PAGE - 1, Len(its))
    IN  Slice(its, start_idx, end_idx)

\* lines 109-111
PageItems(its, pnum) ==
    LET start_idx == pnum * ROWS_PER_PAGE
        end_idx   == Min((pnum + 1) * ROWS_PER_PAGE, Len(its))
    IN  Slice(its, start_idx, end_idx)

\* lines 113-162: the overlay of page pnum, as saved into the packet
Overlay(its, h, pnum, total) ==
    [pagesize |-> <<PAGE_W, PAGE_H>>,
     draws |-> DrawRows(DrawPageHead(NewCanvas, h, pnum, total),
                        PageItems(its, pnum)).draws]

\* pypdf page.merge_page(overlay.pages[0]): the overlay is layered on the page
MergePageInto(page, overlay) == [page EXCEPT !.overlays = Append(@, overlay)]

-----------------------------------------------------------------------------
(* The requests the model renders *)

Letters == <<"A", "B", "C", "D", "E", "F", "G", "H", "I", "J", "K", "L", "M",
             "N", "O", "P", "Q", "R", "S", "T", "U", "V", "W", "X", "Y", "Z">>

\* a text of n characters, no two neighbours equal
Text(n) == [j \in 1..n |-> Letters[((j - 1) % 26) + 1]]

Wrench == <<"W", "R", "E", "N", "C", "H", ",", " ", "A", "D", "J", "U", "S",
            "T", "A", "B", "L", "E", ":", " ", "1", "2", " ", "I", "N", ".">>

EA == <<"E", "A">>

\* items_data entries as the client posts them; a missing key takes its default
ItemPool ==
    << [description |-> Wrench,
        nsn |-> <<"1", "2", "3", "4", "5", "6", "7", "8", "9">>,
        unit_of_issue |-> EA, qty |-> 2],
       [description |-> Text(DESC_MAX)],
       [description |-> Text(DESC_MAX + 1), nsn |-> <<"7">>,
        unit_of_issue |-> <<"B", "X">>, qty |-> 10],
       [nsn |-> <<>>, qty |-> 0],
       [description |-> <<"B", "O", "L", "T">>, nsn |-> <<"5", "5">>,
        unit_of_issue |-> <<>>, qty |-> 3] >>

\* n posted items, the pool taken in turn from entry v + 1
ItemsData(n, v) == [i \in 1..n |-> ItemPool[((i - 1 + v) % Len(ItemPool)) + 1]]

Variants == {0, 2}

Today == <<"2", "0", "2", "6", "-", "1", "1", "-", "0", "6">>

\* header_data as the client posts it
HeaderPool ==
    << [packed_by |-> <<"S", "G", "T">>, no_boxes |-> <<"2">>,
        requisition_no |-> <<"R", "1">>, order_no |-> <<"O", "9">>,
        end_item |-> Text(END_ITEM_MAX), date |-> <<"1", "/", "2">>,
        certifier_name |-> <<"D", "O", "E">>, certifier_title |-> <<"C", "P", "T">>],
       [end_item |-> Text(END_ITEM_MAX + 1), date |-> <<>>,
        certifier_title |-> <<"L", "T">>],
       [no_boxes |-> <<"1">>, certifier_name |-> <<"R", "O", "E">>] >>

-----------------------------------------------------------------------------
(* app.py generate_form, lines 260-284: the arguments it builds *)

\* lines 261-272; i is the 0-indexed position of enumerate.  qty is posted
\* as a number, and int() of a number in range is that number
ItemFromData(i, item) ==
    LET qty == Get(item, "qty", 1)
    IN  DD1750Item(i + 1, Get(item, "description", <<>>), Get(item, "nsn", <<>>),
                   Get(item, "unit_of_issue", EA), qty, 0, qty)

ItemsFromData(items_data) ==
    [i \in 1..Len(items_data) |-> ItemFromData(i - 1, items_data[i])]

\* lines 275-284
HeaderFromData(header_data) ==
    DD1750Header(Get(header_data, "packed_by", <<>>),
                 Get(header_data, "no_boxes", <<>>),
                 Get(header_data, "requisition_no", <<>>),
                 Get(header_data, "order_no", <<>>),
                 Get(header_data, "end_item", <<>>),
                 Get(header_data, "date", Today),
                 Get(header_data, "certifier_name", <<>>),
                 Get(header_data, "certifier_title", <<>>))

\* DD1750Header() with every field at its default
DefaultHeader == DD1750Header(<<>>, <<>>, <<>>, <<>>, <<>>, <<>>, <<>>, <<>>)

\* the header arguments of a direct call
LibHeaders == {None, Some(DefaultHeader), Some(HeaderFromData(HeaderPool[1]))}

-----------------------------------------------------------------------------
(* State *)

\* blank_1750.pdf: one page, the printed form, nothing layered on it
BlankTemplate == [pages |-> << [base |-> "blank_1750", overlays |-> <<>>] >>]

NoPacket == [pagesize |-> <<0, 0>>, draws |-> <<>>]

RenderInit ==
    /\ pc = [r \in Requests |-> "idle"]
    /\ via = [r \in Requests |-> "none"]
    /\ items = [r \in Requests |-> <<>>]
    /\ header = [r \in Requests |-> None]
    /\ total_pages = [r \in Requests |-> 0]
    /\ page_num = [r \in Requests |-> 0]
    /\ packet = [r \in Requests |-> NoPacket]
    /\ writer = [r \in Requests |-> <<>>]
    /\ outFile = [r \in Requests |-> <<>>]
    /\ returned = [r \in Requests |-> None]
    /\ response = [r \in Requests |-> 0]
    /\ stored = [r \in Requests |-> FALSE]
    /\ template = BlankTemplate

-----------------------------------------------------------------------------
(* generate_dd1750 *)

\* app.py lines 292-300: what the handler does once generate_dd1750 returned
AfterGenerate(r) ==
    IF via'[r] = "web"
    THEN /\ stored' = [stored EXCEPT ![r] = TRUE]
         /\ response' = [response EXCEPT ![r] = 200]
    ELSE UNCHANGED <<stored, response>>

\* (lines 105-106 alone, the empty list not set apart)
EnterGenerate_NoEmptyCase(r, its, hdr) ==
    /\ items' = [items EXCEPT ![r] = its]
    /\ header' = [header EXCEPT ![r] = hdr]
    /\ total_pages' = [total_pages EXCEPT ![r] = Ceil(Len(its), ROWS_PER_PAGE)]
    /\ writer' = [writer EXCEPT ![r] = <<>>]
    /\ page_num' = [page_num EXCEPT ![r] = 0]
    /\ pc' = [pc EXCEPT ![r] = IF total_pages'[r] > 0 THEN "overlay" ELSE "write"]
    /\ UNCHANGED <<outFile, returned, stored, response, packet, template>>

\* lines 96-106, entered with the arguments its and hdr
EnterGenerate(r, its, hdr) ==
    /\ items' = [items EXCEPT ![r] = its]
    /\ header' = [header EXCEPT ![r] = hdr]
    /\ IF its = <<>>
       THEN /\ outFile' = [outFile EXCEPT ![r] = <<template.pages[1]>>]
            /\ returned' = [returned EXCEPT ![r] = Some(0)]
            /\ pc' = [pc EXCEPT ![r] = "done"]
            /\ AfterGenerate(r)
            /\ UNCHANGED <<total_pages, page_num, writer>>
       ELSE /\ total_pages' = [total_pages EXCEPT ![r] = Ceil(Len(its), ROWS_PER_PAGE)]
            /\ writer' = [writer EXCEPT ![r] = <<>>]
            /\ page_num' = [page_num EXCEPT ![r] = 0]
            /\ pc' = [pc EXCEPT ![r] =
                        IF total_pages'[r] > 0 THEN "overlay" ELSE "write"]
            /\ UNCHANGED <<outFile, returned, stored, response>>
    /\ UNCHANGED <<packet, template>>

\* a caller other than the web handler calls generate_dd1750(items, ..., header)
CallGenerate(r, its, hdr) ==
    /\ pc[r] = "idle"
    /\ via' = [via EXCEPT ![r] = "lib"]
    /\ EnterGenerate(r, its, hdr)

\* app.py lines 245-292: POST /generate up to the call of generate_dd1750;
\* the temporary file of line 289 is created empty
GenerateForm(r, items_data, header_data) ==
    /\ pc[r] = "idle"
    /\ via' = [via EXCEPT ![r] = "web"]
    /\ IF items_data = <<>>
       THEN /\ response' = [response EXCEPT ![r] = 400]
            /\ pc' = [pc EXCEPT ![r] = "done"]
            /\ UNCHANGED <<items, header, total_pages, page_num, packet, writer,
                           outFile, returned, stored, template>>
       ELSE EnterGenerate(r, ItemsFromData(items_data), Some(HeaderFromData(header_data)))

\* (the packet a buffer all invocations share)
DrawOverlay_SharedPacket(r) ==
    /\ pc[r] = "overlay"
    /\ packet' = [q \in Requests |->
                    Overlay(items[r], header[r], page_num[r], total_pages[r])]
    /\ pc' = [pc EXCEPT ![r] = "merge"]
    /\ UNCHANGED <<via, items, header, total_pages, page_num, writer, outFile,
                   returned, response, stored, template>>

\* lines 108-162: compose the overlay of page page_num into the packet
DrawOverlay(r) ==
    /\ pc[r] = "overlay"
    /\ packet' = [packet EXCEPT ![r] =
                    Overlay(items[r], header[r], page_num[r], total_pages[r])]
    /\ pc' = [pc EXCEPT ![r] = "merge"]
    /\ UNCHANGED <<via, items, header, total_pages, page_num, writer, outFile,
                   returned, response, stored, template>>

\* (the document written to output_path after every page)
MergePage_WriteThrough(r) ==
    /\ pc[r] = "merge"
    /\ LET page == template.pages[1]
       IN  writer' = [writer EXCEPT ![r] = Append(@, MergePageInto(page, packet[r]))]
    /\ outFile' = [outFile EXCEPT ![r] = writer'[r]]
    /\ IF page_num[r] + 1 < total_pages[r]
       THEN /\ page_num' = [page_num EXCEPT ![r] = @ + 1]
            /\ pc' = [pc EXCEPT ![r] = "overlay"]
       ELSE /\ pc' = [pc EXCEPT ![r] = "write"]
            /\ UNCHANGED page_num
    /\ UNCHANGED <<via, items, header, total_pages, packet, returned,
                   response, stored, template>>

\* lines 164-168 and the loop's next iteration: merge the overlay onto a page
\* read afresh from the template and add it to the writer
MergePage(r) ==
    /\ pc[r] = "merge"
    /\ LET page == template.pages[1]
       IN  writer' = [writer EXCEPT ![r] = Append(@, MergePageInto(page, packet[r]))]
    /\ IF page_num[r] + 1 < total_pages[r]
       THEN /\ page_num' = [page_num EXCEPT ![r] = @ + 1]
            /\ pc' = [pc EXCEPT ![r] = "overlay"]
       ELSE /\ pc' = [pc EXCEPT ![r] = "write"]
            /\ UNCHANGED page_num
    /\ UNCHANGED <<via, items, header, total_pages, packet, outFile, returned,
                   response, stored, template>>

\* lines 170-173: write the document and return
WriteOutput(r) ==
    /\ pc[r] = "write"
    /\ outFile' = [outFile EXCEPT ![r] = writer[r]]
    /\ returned' = [returned EXCEPT ![r] = Some(Len(items[r]))]
    /\ pc' = [pc EXCEPT ![r] = "done"]
    /\ UNCHANGED via
    /\ AfterGenerate(r)
    /\ UNCHANGED <<items, header, total_pages, page_num, packet, writer, template>>

\* composing or merging the current page raises: the exception leaves
\* generate_dd1750; app.py lines 302-303 answer 500
PageFails(r) ==
    /\ pc[r] \in {"overlay", "merge"}
    /\ pc' = [pc EXCEPT ![r] = "failed"]
    /\ response' = [response EXCEPT ![r] = IF via[r] = "web" THEN 500 ELSE @]
    /\ UNCHANGED <<via, items, header, total_pages, page_num, packet, writer,
                   outFile, returned, stored, template>>

\* the steps of a call under way
Step(r) == DrawOverlay(r) \/ MergePage(r) \/ WriteOutput(r) \/ PageFails(r)

-----------------------------------------------------------------------------
(* app.py: extraction credits and access codes *)

\* FREE_EXTRACTIONS, the default of line 33
FREE_EXTRACTIONS == 3

\* most requests and calls begun in one behaviour, handled one at a time
MaxServed == 5

\* most requests begun in one behaviour of the two threads
MaxConcServed == 4

Users == {"u1", "u2"}
Threads == {1, 2}

\* the codes generate_codes can draw, and the empty code a client can post;
\* a drawn code that repeats an earlier one is not modelled
Codes == {"DD17-A", "DD17-B"}
EmptyCode == ""

\* num_codes and credits as the admin posts them
NumCodesInputs == {0, 1, 2, 101}
CreditsInputs == {0, 1, 2, 1001}

\* get_user_data, lines 56-61: the default entry
DefaultUser == [extractions_used |-> 0, credits |-> 0, total_paid |-> 0]

\* get_user_data, lines 54-62: USER_DATA with the entry of user_id created if absent
GetUserData(ud, user_id) ==
    IF user_id \in DOMAIN ud THEN ud ELSE ud @@ (user_id :> DefaultUser)

\* the entry get_user_data returns
UserEntry(ud, user_id) == GetUserData(ud, user_id)[user_id]

\* max(a, b)
Max(a, b) == IF a >= b THEN a ELSE b

\* get_remaining_extractions, lines 65-69, of an entry
Remaining(data) ==
    Max(0, FREE_EXTRACTIONS - data.extractions_used) + data.credits

IdleThread ==
    [pc |-> "idle", kind |-> "none", user |-> "none", code |-> EmptyCode,
     tmp |-> 0, ok |-> FALSE, resp |-> 0, before |-> DefaultUser,
     left |-> 0, cr |-> 0]

NoHist == [started |-> 0, redeemed |-> 0, refunded |-> 0]

CreditInit ==
    /\ USER_DATA = [u \in {} |-> DefaultUser]
    /\ ACCESS_CODES = [c \in {} |-> [credits |-> 0, used |-> FALSE, used_by |-> "none"]]
    /\ th = [t \in Threads |-> IdleThread]
    /\ served = 0
    /\ hist = [u \in Users |-> NoHist]

DedupInit ==
    /\ all_items = <<>>
    /\ deduped = None

\* the server as started with ANTHROPIC_API_KEY set
Init == RenderInit /\ CreditInit /\ DedupInit /\ api_key = TRUE

\* the server as started with or without ANTHROPIC_API_KEY
InitAnyKey == RenderInit /\ CreditInit /\ DedupInit /\ api_key \in BOOLEAN

\* a thread takes up a request of this kind
Begin(t, kind, user_id) ==
    [IdleThread EXCEPT !.kind = kind, !.user = user_id,
                       !.before = UserEntry(USER_DATA, user_id)]

\* a thread answers with an HTTP status and is free again
Answer(rec, status) == [rec EXCEPT !.pc = "idle", !.resp = status, !.tmp = 0]

(* use_extraction, lines 72-86, one access of USER_DATA per step *)

\* line 74 and the test of line 77
UseCheckFree(t) ==
    /\ th[t].pc = "use_check_free"
    /\ USER_DATA' = GetUserData(USER_DATA, th[t].user)
    /\ th' = [th EXCEPT ![t].pc =
                 IF USER_DATA'[th[t].user].extractions_used < FREE_EXTRACTIONS
                 THEN "use_free_load" ELSE "use_check_credits"]
    /\ UNCHANGED <<ACCESS_CODES, api_key, served, hist>>

\* line 78, data['extractions_used'] += 1: the value is loaded
UseFreeLoad(t) ==
    /\ th[t].pc = "use_free_load"
    /\ th' = [th EXCEPT ![t].tmp = USER_DATA[th[t].user].extractions_used,
                        ![t].pc = "use_free_store"]
    /\ UNCHANGED <<USER_DATA, ACCESS_CODES, api_key, served, hist>>

\* where use_extraction returns to: the direct caller, or lines 199-205
Return(rec, ok) ==
    IF rec.kind = "use" THEN [rec EXCEPT !.pc = "idle", !.ok = ok, !.tmp = 0]
    ELSE IF ok THEN [rec EXCEPT !.pc = "extract_run", !.ok = ok, !.tmp = 0]
    ELSE Answer([rec EXCEPT !.ok = ok], 402)

\* an extraction has started for the user of a /extract request
Started(rec) ==
    IF rec.kind = "extract"
    THEN [hist EXCEPT ![rec.user].started = @ + 1]
    ELSE hist

\* lines 78-79: the sum is stored, return True
UseFreeStore(t) ==
    /\ th[t].pc = "use_free_store"
    /\ USER_DATA' = [USER_DATA EXCEPT ![th[t].user].extractions_used = th[t].tmp + 1]
    /\ th' = [th EXCEPT ![t] = Return(@, TRUE)]
    /\ hist' = Started(th[t])
    /\ UNCHANGED <<ACCESS_CODES, api_key, served>>

\* (a credit taken whenever credits are not negative)
UseCheckCredits_NotNegative(t) ==
    /\ th[t].pc = "use_check_credits"
    /\ th' = [th EXCEPT ![t] =
                 IF USER_DATA[th[t].user].credits >= 0
                 THEN [@ EXCEPT !.pc = "use_paid_load"]
                 ELSE Return(@, FALSE)]
    /\ UNCHANGED <<USER_DATA, ACCESS_CODES, api_key, served, hist>>

\* the test of line 82, and line 86: return False
UseCheckCredits(t) ==
    /\ th[t].pc = "use_check_credits"
    /\ th' = [th EXCEPT ![t] =
                 IF USER_DATA[th[t].user].credits > 0
                 THEN [@ EXCEPT !.pc = "use_paid_load"]
                 ELSE Return(@, FALSE)]
    /\ UNCHANGED <<USER_DATA, ACCESS_CODES, api_key, served, hist>>

\* line 83, data['credits'] -= 1: the value is loaded
UsePaidLoad(t) ==
    /\ th[t].pc = "use_paid_load"
    /\ th' = [th EXCEPT ![t].tmp = USER_DATA[th[t].user].credits,
                        ![t].pc = "use_paid_store"]
    /\ UNCHANGED <<USER_DATA, ACCESS_CODES, api_key, served, hist>>

\* lines 83-84: the difference is stored, return True
UsePaidStore(t) ==
    /\ th[t].pc = "use_paid_store"
    /\ USER_DATA' = [USER_DATA EXCEPT ![th[t].user].credits = th[t].tmp - 1]
    /\ th' = [th EXCEPT ![t] = Return(@, TRUE)]
    /\ hist' = Started(th[t])
    /\ UNCHANGED <<ACCESS_CODES, api_key, served>>

\* a caller calls use_extraction(user_id)
CallUseExtraction(t, user_id) ==
    /\ th[t].pc = "idle"
    /\ served < MaxServed
    /\ served' = served + 1
    /\ th' = [th EXCEPT ![t] = [Begin(t, "use", user_id) EXCEPT !.pc = "use_check_free"]]
    /\ UNCHANGED <<USER_DATA, ACCESS_CODES, api_key, hist>>

(* POST /extract, lines 171-242 *)

\* lines 174-184: 503 without the key; the remaining extractions are read
\* (the user's entry is created) and 402 is answered when there are none
ExtractBegin(t, user_id) ==
    /\ th[t].pc = "idle"
    /\ served < MaxServed
    /\ served' = served + 1
    /\ IF ~api_key
       THEN /\ th' = [th EXCEPT ![t] = Answer(Begin(t, "extract", user_id), 503)]
            /\ UNCHANGED USER_DATA
       ELSE /\ USER_DATA' = GetUserData(USER_DATA, user_id)
            /\ th' = [th EXCEPT ![t] =
                         IF Remaining(USER_DATA'[user_id]) <= 0
                         THEN Answer(Begin(t, "extract", user_id), 402)
                         ELSE [Begin(t, "extract", user_id) EXCEPT !.pc = "extract_pdf"]]
    /\ UNCHANGED <<ACCESS_CODES, api_key, hist>>

\* lines 192-195: 400 when the user has uploaded no PDF
ExtractNoPdf(t) ==
    /\ th[t].pc = "extract_pdf"
    /\ th' = [th EXCEPT ![t] = Answer(@, 400)]
    /\ UNCHANGED <<USER_DATA, ACCESS_CODES, api_key, served, hist>>

\* lines 192-199: the PDF is there, use_extraction is called
ExtractHasPdf(t) ==
    /\ th[t].pc = "extract_pdf"
    /\ th' = [th EXCEPT ![t].pc = "use_check_free"]
    /\ UNCHANGED <<USER_DATA, ACCESS_CODES, api_key, served, hist>>

\* lines 205-237: the extraction succeeds
ExtractSucceeds(t) ==
    /\ th[t].pc = "extract_run"
    /\ th' = [th EXCEPT ![t] = Answer(@, 200)]
    /\ UNCHANGED <<USER_DATA, ACCESS_CODES, api_key, served, hist>>

\* lines 205-241: the extraction raises; credits += 1 loads the value
ExtractRaises(t) ==
    /\ th[t].pc = "extract_run"
    /\ USER_DATA' = GetUserData(USER_DATA, th[t].user)
    /\ th' = [th EXCEPT ![t].tmp = USER_DATA'[th[t].user].credits,
                        ![t].pc = "refund_store"]
    /\ UNCHANGED <<ACCESS_CODES, api_key, served, hist>>

\* (the exception answered without a refund)
RefundStore_NoRefund(t) ==
    /\ th[t].pc = "refund_store"
    /\ th' = [th EXCEPT ![t] = Answer(@, 500)]
    /\ UNCHANGED <<USER_DATA, ACCESS_CODES, api_key, served, hist>>

\* lines 241-242: the sum is stored, 500 is answered
RefundStore(t) ==
    /\ th[t].pc = "refund_store"
    /\ USER_DATA' = [USER_DATA EXCEPT ![th[t].user].credits = th[t].tmp + 1]
    /\ th' = [th EXCEPT ![t] = Answer(@, 500)]
    /\ hist' = [hist EXCEPT ![th[t].user].refunded = @ + 1]
    /\ UNCHANGED <<ACCESS_CODES, api_key, served>>

(* POST /redeem-code, lines 348-381; code is the posted code after strip().upper() *)

\* lines 351-363: the empty, the unknown and the used code are answered 400
RedeemBegin(t, user_id, code) ==
    /\ th[t].pc = "idle"
    /\ served < MaxServed
    /\ served' = served + 1
    /\ th' = [th EXCEPT ![t] =
                 LET rec == [Begin(t, "redeem", user_id) EXCEPT !.code = code]
                 IN  IF code = EmptyCode THEN Answer(rec, 400)
                     ELSE IF code \notin DOMAIN ACCESS_CODES THEN Answer(rec, 400)
                     ELSE IF ACCESS_CODES[code].used THEN Answer(rec, 400)
                     ELSE [rec EXCEPT !.pc = "redeem_mark"]]
    /\ UNCHANGED <<USER_DATA, ACCESS_CODES, api_key, hist>>

\* lines 366-369: the code is marked used
RedeemMark(t) ==
    /\ th[t].pc = "redeem_mark"
    /\ ACCESS_CODES' = [ACCESS_CODES EXCEPT ![th[t].code].used = TRUE,
                                            ![th[t].code].used_by = th[t].user]
    /\ th' = [th EXCEPT ![t].pc = "redeem_load"]
    /\ UNCHANGED <<USER_DATA, api_key, served, hist>>

\* lines 371-372, user_data['credits'] += ...: the value is loaded
RedeemLoad(t) ==
    /\ th[t].pc = "redeem_load"
    /\ USER_DATA' = GetUserData(USER_DATA, th[t].user)
    /\ th' = [th EXCEPT ![t].tmp = USER_DATA'[th[t].user].credits,
                        ![t].pc = "redeem_store"]
    /\ UNCHANGED <<ACCESS_CODES, api_key, served, hist>>

\* lines 372-381: the sum is stored, 200 is answered
RedeemStore(t) ==
    /\ th[t].pc = "redeem_store"
    /\ USER_DATA' = [USER_DATA EXCEPT ![th[t].user].credits =
                        th[t].tmp + ACCESS_CODES[th[t].code].credits]
    /\ th' = [th EXCEPT ![t] = Answer(@, 200)]
    /\ hist' = [hist EXCEPT ![th[t].user].redeemed =
                   @ + ACCESS_CODES[th[t].code].credits]
    /\ UNCHANGED <<ACCESS_CODES, api_key, served>>

(* POST /admin/generate-codes, lines 392-428 *)

\* the codes of the pool not drawn yet and not awaited by a loop under way
CodesLeft ==
    Cardinality(Codes \ DOMAIN ACCESS_CODES) - th[1].left - th[2].left

\* lines 395-408: 401 for a wrong password, 400 for a number out of range;
\* an accepted request asks for no more codes than the pool has left
GenerateBegin(t, password_ok, num_codes, credits_per_code) ==
    /\ th[t].pc = "idle"
    /\ served < MaxServed
    /\ num_codes \in 1..100 => num_codes <= CodesLeft
    /\ served' = served + 1
    /\ th' = [th EXCEPT ![t] =
                 LET rec == [IdleThread EXCEPT !.kind = "generate"]
                 IN  IF ~password_ok THEN Answer(rec, 401)
                     ELSE IF num_codes < 1 \/ num_codes > 100 THEN Answer(rec, 400)
                     ELSE IF credits_per_code < 1 \/ credits_per_code > 1000
                          THEN Answer(rec, 400)
                     ELSE [rec EXCEPT !.pc = "generate_loop", !.left = num_codes,
                                      !.cr = credits_per_code]]
    /\ UNCHANGED <<USER_DATA, ACCESS_CODES, api_key, hist>>

\* lines 412-428: one turn of the loop stores one new code; 200 after the last
GenerateCode(t, code) ==
    /\ th[t].pc = "generate_loop"
    /\ code \in Codes \ DOMAIN ACCESS_CODES
    /\ ACCESS_CODES' = ACCESS_CODES @@
           (code :> [credits |-> th[t].cr, used |-> FALSE, used_by |-> "none"])
    /\ th' = [th EXCEPT ![t] =
                 IF th[t].left = 1 THEN Answer([@ EXCEPT !.left = 0], 200)
                 ELSE [@ EXCEPT !.left = @ - 1]]
    /\ UNCHANGED <<USER_DATA, api_key, served, hist>>

\* the steps of use_extraction
UseStep(t) ==
    \/ UseCheckFree(t) \/ UseFreeLoad(t) \/ UseFreeStore(t)
    \/ UseCheckCredits(t) \/ UsePaidLoad(t) \/ UsePaidStore(t)

\* the steps of a request under way
ThreadStep(t) ==
    \/ UseStep(t)
    \/ ExtractNoPdf(t) \/ ExtractHasPdf(t) \/ ExtractSucceeds(t)
    \/ ExtractRaises(t) \/ RefundStore(t)
    \/ RedeemMark(t) \/ RedeemLoad(t) \/ RedeemStore(t)
    \/ \E code \in Codes : GenerateCode(t, code)

\* a thread takes up a request
ThreadBegin(t) ==
    \/ \E u \in Users : ExtractBegin(t, u)
    \/ \E u \in Users, code \in Codes \cup {EmptyCode} : RedeemBegin(t, u, code)
    \/ \E ok \in BOOLEAN, n \in NumCodesInputs, c \in CreditsInputs :
          GenerateBegin(t, ok, n, c)

-----------------------------------------------------------------------------
(* vision_extractor.py: extract_items_from_pdf, lines 157-205 *)

\* most items extracted from the pages of one PDF
MaxExtracted == 4

LowerLetters == <<"a", "b", "c", "d", "e", "f", "g", "h", "i", "j", "k", "l", "m",
                  "n", "o", "p", "q", "r", "s", "t", "u", "v", "w", "x", "y", "z">>

\* str.upper() of one ASCII character
UpperChar(c) ==
    IF \E i \in 1..26 : LowerLetters[i] = c
    THEN Letters[CHOOSE i \in 1..26 : LowerLetters[i] = c]
    ELSE c

\* str.upper() of an ASCII text
Upper(text) == [j \in 1..Len(text) |-> UpperChar(text[j])]

\* ExtractedItem, lines 12-19, the fields the deduplication carries
ExtractedItem(description, nsn, qty) ==
    [description |-> description, nsn |-> nsn, qty |-> qty]

\* descriptions as the pages show them: one text in three spellings, and others
ExtractedDescriptions ==
    {<<"a", "b">>, <<"A", "B">>, <<"A", "b">>, <<"c", "1">>}

ExtractedPool ==
    {ExtractedItem(d, <<>>, q) : d \in ExtractedDescriptions, q \in {1, 2}}

\* what extract_items_from_image returns for a page: no, one or two items
PageResults ==
    {<<>>} \cup {<<a>> : a \in ExtractedPool}
           \cup {<<a, b>> : a \in ExtractedPool, b \in ExtractedPool}

\* position of key in the dict seen (a sequence of key/item pairs), 0 if absent
SeenIndex(seen, key) ==
    IF \E i \in 1..Len(seen) : seen[i].key = key
    THEN CHOOSE i \in 1..Len(seen) : seen[i].key = key
    ELSE 0

\* (the item of a key replaced also by one of equal qty)
SeenPut_LatestOnTie(seen, item) ==
    LET key == Upper(item.description)
        i == SeenIndex(seen, key)
    IN  IF i = 0 THEN Append(seen, [key |-> key, item |-> item])
        ELSE IF item.qty >= seen[i].item.qty
             THEN [seen EXCEPT ![i].item = item]
        ELSE seen

\* lines 201-203: one turn of the loop; a dict keeps a key where it was first put
SeenPut(seen, item) ==
    LET key == Upper(item.description)
        i == SeenIndex(seen, key)
    IN  IF i = 0 THEN Append(seen, [key |-> key, item |-> item])
        ELSE IF item.qty > seen[i].item.qty
             THEN [seen EXCEPT ![i].item = item]
        ELSE seen

\* lines 199-203: seen after the first n items
RECURSIVE SeenAfter(_, _)
SeenAfter(its, n) ==
    IF n = 0 THEN <<>> ELSE SeenPut(SeenAfter(its, n - 1), its[n])

\* line 205: list(seen.values())
SeenValues(seen) == [j \in 1..Len(seen) |-> seen[j].item]

\* lines 187-196: one page's items are appended to all_items
ExtractPage(page_items) ==
    /\ deduped = None
    /\ Len(all_items) + Len(page_items) <= MaxExtracted
    /\ all_items' = all_items \o page_items
    /\ UNCHANGED deduped

\* lines 198-205: the pages are done, the deduplicated list is returned
Deduplicate ==
    /\ deduped = None
    /\ deduped' = Some(SeenValues(SeenAfter(all_items, Len(all_items))))
    /\ UNCHANGED all_items

-----------------------------------------------------------------------------
(* Specifications *)

\* one request at a time
RenderNext ==
    \/ \E n \in 0..MaxItems, v \in Variants, hd \in 1..Len(HeaderPool) :
          GenerateForm(1, ItemsData(n, v), HeaderPool[hd])
    \/ \E n \in 0..MaxItems, v \in Variants, h \in LibHeaders :
          CallGenerate(1, ItemsFromData(ItemsData(n, v)), h)
    \/ Step(1)

Next == RenderNext /\ UNCHANGED <<creditVars, dedupVars>>

Spec == Init /\ [][Next]_vars

\* two requests, their steps interleaved: both may be /generate requests,
\* each with its own items and header; request 2 may also be a direct call
\* without a header
ConcHeader(r) == IF r = 1 THEN HeaderPool[1] ELSE HeaderPool[2]

RenderNextConc ==
    \/ \E r \in Requests, n \in 0..MaxConcItems :
          GenerateForm(r, ItemsData(n, r), ConcHeader(r))
    \/ \E n \in 0..MaxConcItems :
          CallGenerate(2, ItemsFromData(ItemsData(n, 2)), None)
    \/ \E r \in Requests : Step(r)

NextConc == RenderNextConc /\ UNCHANGED <<creditVars, dedupVars>>

SpecConc == Init /\ [][NextConc]_vars

\* the credit requests handled one at a time, and direct calls of use_extraction
CreditNext ==
    /\ \/ ThreadBegin(1)
       \/ \E u \in Users : CallUseExtraction(1, u)
       \/ ThreadStep(1)
    /\ UNCHANGED <<renderVars, dedupVars>>

SpecCredits == InitAnyKey /\ [][CreditNext]_vars

\* the credit requests handled by two threads, their steps interleaved
CreditNextConc ==
    /\ \E t \in Threads :
          \/ served < MaxConcServed /\ ThreadBegin(t)
          \/ ThreadStep(t)
    /\ UNCHANGED <<renderVars, dedupVars>>

SpecCreditsConc == Init /\ [][CreditNextConc]_vars

\* one call of extract_items_from_pdf
DedupNext ==
    /\ \/ \E page_items \in PageResults : ExtractPage(page_items)
       \/ Deduplicate
    /\ UNCHANGED <<renderVars, creditVars>>

SpecDedup == Init /\ [][DedupNext]_vars

-----------------------------------------------------------------------------
(* Reading a rendered document *)

\* generate_dd1750 has returned for request r
Returned(r) == returned[r] # None

\* every text drawn on a page, overlay after overlay
DrawsOf(page) ==
    Join([k \in 1..Len(page.overlays) |-> page.overlays[k].draws], Len(page.overlays))

\* the draws of a page at position (x, y), in drawing order
DrawsAt(page, x, y) == SelectSeq(DrawsOf(page), LAMBDA d : d.x = x /\ d.y = y)

\* the draws of a page in column x of the item table, in drawing order
ColumnDraws(page, x) ==
    SelectSeq(DrawsOf(page), LAMBDA d : d.x = x /\ d.y < Y_TABLE_TOP_LINE
                                                /\ d.y > Y_TABLE_BOTTOM_LINE)

BoxX == (X_BOX_L + X_BOX_R) \div 2
ContentX == X_CONTENT_L + PAD_X

\* the line numbers drawn on a page, in drawing order
LineNosOn(page) ==
    LET ds == ColumnDraws(page, BoxX) IN [j \in 1..Len(ds) |-> ds[j].text]

\* the descriptions (font 7) and the NSN lines (font 6) drawn on a page
DescDrawsOn(page) == SelectSeq(ColumnDraws(page, ContentX), LAMBDA d : d.font = 7)
NsnDrawsOn(page) == SelectSeq(ColumnDraws(page, ContentX), LAMBDA d : d.font = 6)

\* number of items the claims expect on page k (1-indexed) of p pages for n items
ItemsOnPage(n, p, k) == IF k < p THEN ROWS_PER_PAGE ELSE n - (ROWS_PER_PAGE * (p - 1))

-----------------------------------------------------------------------------
(* Claims *)

\* C1: for every input list of N >= 0 items the output document has exactly
\* max(1, ceil(N/18)) pages: one page for N = 0, and otherwise the number P
\* with 18 * (P - 1) < N <= 18 * P.
C1_PageCount ==
    \A r \in Requests :
        Returned(r) =>
            LET N == Len(items[r])
                P == Len(outFile[r])
            IN  /\ N = 0 => P = 1
                /\ N >= 1 => /\ P >= 1
                             /\ 18 * (P - 1) < N
                             /\ N <= 18 * P

\* a call with 37 items has returned, with 3 pages written
C1_Witness ==
    \E r \in Requests :
        Returned(r) /\ Len(items[r]) = 37 /\ Len(outFile[r]) = 3

\* C2: for N >= 1 the pages are written in page order and page k holds
\* exactly the contiguous slice items[18k .. min(18(k+1), N) - 1]: between 1
\* and 18 items, 18 on every page but the last, and the line numbers of the
\* pages, read in output order, are those of the input in input order.
C2_Pagination ==
    \A r \in Requests :
        (Returned(r) /\ Len(items[r]) >= 1) =>
            LET N == Len(items[r])
                P == Len(outFile[r])
            IN  \A k \in 1..P :
                    LET cnt == ItemsOnPage(N, P, k)
                        got == LineNosOn(outFile[r][k])
                    IN  /\ cnt >= 1 /\ cnt <= 18
                        /\ Len(got) = cnt
                        /\ Len(DescDrawsOn(outFile[r][k])) = cnt
                        /\ \A j \in 1..cnt :
                              got[j] = Str(items[r][18 * (k - 1) + j].line_no)

\* 19 items: two pages, 18 line numbers on the first and one on the second
C2_Witness ==
    \E r \in Requests :
        /\ Returned(r) /\ Len(items[r]) = 19 /\ Len(outFile[r]) = 2
        /\ Len(LineNosOn(outFile[r][1])) = 18
        /\ LineNosOn(outFile[r][2]) = << <<"1", "9">> >>

\* C3: with an empty item list the output is a single page equal to the
\* unmodified template (nothing drawn, no overlay merged), with or without a
\* header, and the returned item count is 0.
C3_EmptyIsTemplate ==
    \A r \in Requests :
        (Returned(r) /\ items[r] = <<>>) =>
            /\ outFile[r] = BlankTemplate.pages
            /\ DrawsOf(outFile[r][1]) = <<>>
            /\ returned[r] = Some(0)

\* an empty list rendered with a header supplied
C3_Witness ==
    \E r \in Requests :
        Returned(r) /\ items[r] = <<>> /\ header[r] # None /\ Len(outFile[r]) = 1

\* C4: the description drawn for an item is its first 50 characters when it
\* is longer than 50 characters and the description unchanged otherwise.
C4_Truncation ==
    \A r \in Requests :
        (Returned(r) /\ Len(items[r]) >= 1) =>
            \A k \in 1..Len(outFile[r]) :
                LET ds == DescDrawsOn(outFile[r][k])
                IN  \A j \in 1..Len(ds) :
                        LET d == items[r][18 * (k - 1) + j].description
                        IN  ds[j].text = IF Len(d) > 50 THEN SubSeq(d, 1, 50) ELSE d

\* a description of 51 characters drawn as its first 50, next to one of exactly
\* 50 characters drawn whole
C4_Witness ==
    \E r \in Requests :
        /\ Returned(r) /\ Len(items[r]) >= 3
        /\ \E i, j \in 1..3 :
              /\ Len(items[r][i].description) = 51
              /\ Len(DescDrawsOn(outFile[r][1])[i].text) = 50
              /\ Len(items[r][j].description) = 50
              /\ DescDrawsOn(outFile[r][1])[j].text = items[r][j].description

\* the draws of a page outside the item table, the two page numbers left out
HeaderDrawsOn(page) ==
    SelectSeq(DrawsOf(page),
              LAMBDA d : /\ (d.y >= Y_TABLE_TOP_LINE \/ d.y <= Y_TABLE_BOTTOM_LINE)
                         /\ ~(d.y = HEADER_Y.page /\ d.x = HEADER_X.page_num)
                         /\ ~(d.y = HEADER_Y.page /\ d.x = HEADER_X.page_total))

\* the texts of a sequence of draws
Texts(ds) == [j \in 1..Len(ds) |-> ds[j].text]

\* C5: for N >= 1 every output page k (1-indexed) carries the page number k
\* and the total page count ceil(N/18), with and without a header, and the
\* other header fields are drawn identically on every page.
C5_PageNumbers ==
    \A r \in Requests :
        (Returned(r) /\ Len(items[r]) >= 1) =>
            LET N == Len(items[r])
                doc == outFile[r]
            IN  \A k \in 1..Len(doc) :
                    /\ Texts(DrawsAt(doc[k], HEADER_X.page_num, HEADER_Y.page))
                          = <<Str(k)>>
                    /\ \E T \in 1..N :
                          /\ 18 * (T - 1) < N /\ N <= 18 * T
                          /\ Texts(DrawsAt(doc[k], HEADER_X.page_total, HEADER_Y.page))
                                = <<Str(T)>>
                    /\ HeaderDrawsOn(doc[k]) = HeaderDrawsOn(doc[1])

\* three pages rendered with a header whose fields appear on the third page
C5_Witness ==
    \E r \in Requests :
        /\ Returned(r) /\ header[r] # None /\ Len(outFile[r]) = 3
        /\ HeaderDrawsOn(outFile[r][3]) # <<>>
        /\ Texts(DrawsAt(outFile[r][3], HEADER_X.page_num, HEADER_Y.page)) = << <<"3">> >>

\* where each header field is drawn, and the text expected there
FieldPlaces(h) ==
    { <<HEADER_X.packed_by, HEADER_Y.packed_by, h.packed_by>>,
      <<HEADER_X.no_boxes, HEADER_Y.no_boxes, h.no_boxes>>,
      <<HEADER_X.req_no, HEADER_Y.req_no, h.requisition_no>>,
      <<HEADER_X.order_no, HEADER_Y.order_no, h.order_no>>,
      <<HEADER_X.end_item, HEADER_Y.end_item,
        SubSeq(h.end_item, 1, IF Len(h.end_item) > 60 THEN 60 ELSE Len(h.end_item))>>,
      <<HEADER_X.date, HEADER_Y.date, h.date>>,
      <<CERT_NAME_X, CERT_Y, h.certifier_name>>,
      <<CERT_TITLE_X, CERT_Y, h.certifier_title>> }

\* C6: a header field is drawn if and only if it is non-empty (end_item as
\* its first 60 characters); nothing is drawn on the certifier line when both
\* certifier fields are empty, and no field is drawn without a header.
C6_HeaderFields ==
    \A r \in Requests :
        (Returned(r) /\ Len(items[r]) >= 1) =>
            \A k \in 1..Len(outFile[r]) :
                LET page == outFile[r][k]
                IN  IF header[r] = None
                    THEN HeaderDrawsOn(page) = <<>>
                    ELSE LET h == header[r][1]
                         IN  /\ \A f \in FieldPlaces(h) :
                                   Texts(DrawsAt(page, f[1], f[2]))
                                      = IF f[3] # <<>> THEN <<f[3]>> ELSE <<>>
                             /\ Len(HeaderDrawsOn(page))
                                   = Cardinality({f \in FieldPlaces(h) : f[3] # <<>>})
                             /\ (h.certifier_name = <<>> /\ h.certifier_title = <<>>)
                                   => SelectSeq(DrawsOf(page), LAMBDA d : d.y = CERT_Y) = <<>>

\* a header with an end_item of 61 characters, an empty date and only the
\* certifier title: end_item drawn as 60 characters, the title drawn, no date
\* and no certifier name drawn
C6_Witness ==
    \E r \in Requests :
        /\ Returned(r) /\ Len(items[r]) >= 1 /\ header[r] # None
        /\ Len(header[r][1].end_item) = 61
        /\ header[r][1].date = <<>>
        /\ header[r][1].certifier_name = <<>>
        /\ Len(DrawsAt(outFile[r][1], HEADER_X.end_item, HEADER_Y.end_item)[1].text) = 60
        /\ DrawsAt(outFile[r][1], HEADER_X.date, HEADER_Y.date) = <<>>
        /\ DrawsAt(outFile[r][1], CERT_NAME_X, CERT_Y) = <<>>
        /\ Len(DrawsAt(outFile[r][1], CERT_TITLE_X, CERT_Y)) = 1

\* the draws of row j (1-indexed) of a page: its description line and its NSN line
RowDrawsOn(page, j) ==
    SelectSeq(DrawsOf(page),
              LAMBDA d : d.y = RowY(j - 1) - 700 \/ d.y = RowY(j - 1) - 1700)

\* the texts the claims expect in the row of an item
RowTexts(item) ==
    LET d == item.description
    IN  << Str(item.line_no), IF Len(d) > 50 THEN SubSeq(d, 1, 50) ELSE d >>
        \o (IF item.nsn # <<>> THEN << <<"N", "S", "N", ":", " ">> \o item.nsn >> ELSE <<>>)
        \o << item.unit_of_issue, Str(item.initial_qty), Str(item.spares_qty),
              Str(item.total_qty) >>

\* the item of the end-to-end scenario and the texts of its row
ScenarioItem ==
    [line_no |-> 1, description |-> Wrench,
     nsn |-> <<"1", "2", "3", "4", "5", "6", "7", "8", "9">>,
     unit_of_issue |-> <<"E", "A">>, initial_qty |-> 2, spares_qty |-> 0,
     total_qty |-> 2]

ScenarioRow ==
    << <<"1">>, Wrench,
       <<"N", "S", "N", ":", " ", "1", "2", "3", "4", "5", "6", "7", "8", "9">>,
       <<"E", "A">>, <<"2">>, <<"0">>, <<"2">> >>

\* C7: the row of every item draws exactly the line number, the (possibly
\* truncated) description, "NSN: " and the nsn if and only if the nsn is
\* non-empty, the unit of issue, initial_qty, spares_qty and total_qty; the
\* scenario item alone, without a header, gives one page whose row 1 shows
\* "1", the description, "NSN: 123456789", "EA", "2", "0", "2".
C7_RowDraws ==
    \A r \in Requests :
        (Returned(r) /\ Len(items[r]) >= 1) =>
            /\ \A k \in 1..Len(outFile[r]) :
                  \A j \in 1..Len(LineNosOn(outFile[r][k])) :
                      LET item == items[r][18 * (k - 1) + j]
                          row  == RowDrawsOn(outFile[r][k], j)
                      IN  /\ Texts(row) = RowTexts(item)
                          /\ item.nsn = <<>> => Len(row) = 6
            /\ (items[r] = <<ScenarioItem>> /\ header[r] = None) =>
                  /\ Len(outFile[r]) = 1
                  /\ Texts(RowDrawsOn(outFile[r][1], 1)) = ScenarioRow

\* the scenario has been rendered: one page, seven draws in row 1
C7_Witness ==
    \E r \in Requests :
        /\ Returned(r) /\ items[r] = <<ScenarioItem>> /\ header[r] = None
        /\ Len(RowDrawsOn(outFile[r][1], 1)) = 7

\* a rendered item without nsn, its row of six draws
C7_NoNsnReached ==
    \E r \in Requests :
        /\ Returned(r) /\ Len(items[r]) >= 2 /\ items[r][2].nsn = <<>>
        /\ Len(RowDrawsOn(outFile[r][1], 2)) = 6

\* C8: when composing a page fails the whole render fails and nothing
\* partial is produced: the file at output_path is written only after every
\* page has been composed and merged, so while pages are being composed, and
\* after a failure on any page, it holds none of the pages composed so far;
\* a failed render returns nothing, is answered 500 and is not stored for
\* download.
C8_NoPartialOutput ==
    \A r \in Requests :
        /\ pc[r] \in {"overlay", "merge", "write", "failed"} => outFile[r] = <<>>
        /\ outFile[r] # <<>> => (pc[r] = "done" /\ Returned(r))
        /\ pc[r] = "failed" =>
              /\ ~Returned(r)
              /\ ~stored[r]
              /\ via[r] = "web" => response[r] = 500

\* a /generate request failed on its second page or later, with the earlier
\* pages already in the writer
C8_Witness ==
    \E r \in Requests :
        /\ pc[r] = "failed" /\ via[r] = "web"
        /\ page_num[r] >= 1 /\ Len(writer[r]) >= 1
        /\ outFile[r] = <<>> /\ response[r] = 500

\* the document a call with these arguments writes when nothing else runs:
\* the template for no items, and otherwise page after page its own overlay
\* on the blank template page
Alone(its, hdr) ==
    IF its = <<>> THEN BlankTemplate.pages
    ELSE LET N == Len(its)
             P == CHOOSE T \in 1..N : 18 * (T - 1) < N /\ N <= 18 * T
         IN  [k \in 1..P |->
                [base |-> "blank_1750",
                 overlays |-> << Overlay(its, hdr, k - 1, P) >>]]

\* a call running with no other call writes the document Alone gives
SoloOutputIsAlone ==
    Returned(1) => outFile[1] = Alone(items[1], header[1])

\* C9: two render invocations with their own output paths, their page steps
\* interleaved in any order, do not interfere: the shared template is never
\* modified, the pages each has composed so far are the first pages of the
\* document it writes when run alone, and so is the document it writes.
C9_NoInterference ==
    /\ template = BlankTemplate
    /\ \A r \in Requests :
          /\ Returned(r) => outFile[r] = Alone(items[r], header[r])
          /\ pc[r] \in {"overlay", "merge", "write"} =>
                writer[r] = SubSeq(Alone(items[r], header[r]), 1, Len(writer[r]))

\* both invocations are under way at once, each with its first page in its
\* writer and the overlay of its second page composed
C9_Witness ==
    /\ pc[1] = "merge" /\ pc[2] = "merge"
    /\ page_num[1] = 1 /\ page_num[2] = 1
    /\ Len(writer[1]) = 1 /\ Len(writer[2]) = 1
    /\ writer[1] # writer[2]

\* both invocations have returned two-page documents
C9_BothReturned ==
    /\ Returned(1) /\ Returned(2)
    /\ Len(outFile[1]) = 2 /\ Len(outFile[2]) = 2

\* C10: with table top 616.0, bottom 89.5 and 18 rows, for every row index i
\* in 0..17 the NSN line at y_i - 17 lies strictly above the description line
\* of row i+1 at y_(i+1) - 7, and the description and NSN baselines of every
\* row lie between the bottom and the top line of the table; so do the
\* baselines actually drawn on every page.
C10_RowsFit ==
    /\ \A i \in 0..17 :
          /\ RowY(i) - 1700 > RowY(i + 1) - 700
          /\ RowY(i) - 700 < 61600
          /\ RowY(i) - 1700 > 8950
    /\ \A r \in Requests :
          (Returned(r) /\ Len(items[r]) >= 1) =>
              \A k \in 1..Len(outFile[r]) :
                  LET descs == DescDrawsOn(outFile[r][k])
                      nsns  == SelectSeq(DrawsOf(outFile[r][k]), LAMBDA d : d.font = 6)
                  IN  /\ \A j \in 1..Len(descs) :
                            /\ descs[j].y < 61600 /\ descs[j].y - 1000 > 8950
                            /\ j < Len(descs) => descs[j].y - 1000 > descs[j + 1].y
                      /\ \A n \in 1..Len(nsns) :
                            /\ nsns[n].y < 61600 /\ nsns[n].y > 8950
                            /\ \E j \in 1..Len(descs) : nsns[n].y = descs[j].y - 1000

\* a full page of 18 rows has been drawn, its last row carrying an NSN line
C10_Witness ==
    \E r \in Requests :
        /\ Returned(r) /\ Len(items[r]) >= 18
        /\ Len(DescDrawsOn(outFile[r][1])) = 18
        /\ \E d \in {NsnDrawsOn(outFile[r][1])[n] : n \in 1..Len(NsnDrawsOn(outFile[r][1]))} :
              d.y = DescDrawsOn(outFile[r][1])[18].y - 1000

-----------------------------------------------------------------------------
(* Claims about the extraction credits, requests handled one at a time *)

\* use_extraction has returned to thread t
UseReturned(t) ==
    \/ th[t].kind = "use" /\ th[t].pc = "idle"
    \/ th[t].kind = "extract" /\ th[t].pc = "extract_run"

\* C11: use_extraction takes a free extraction while extractions_used <
\* FREE_EXTRACTIONS and leaves credits alone, else takes one credit when
\* credits > 0, else returns False and changes nothing; a successful call
\* lowers the remaining extractions by exactly 1, and the call returns True
\* exactly when the remaining extractions were > 0 before it.
C11_UseExtraction ==
    \A t \in Threads :
        UseReturned(t) =>
            LET b == th[t].before
                a == USER_DATA[th[t].user]
                ok == th[t].ok
            IN  /\ b.extractions_used < FREE_EXTRACTIONS =>
                       ok /\ a = [b EXCEPT !.extractions_used = @ + 1]
                /\ b.extractions_used >= FREE_EXTRACTIONS /\ b.credits > 0 =>
                       ok /\ a = [b EXCEPT !.credits = @ - 1]
                /\ b.extractions_used >= FREE_EXTRACTIONS /\ b.credits <= 0 =>
                       ~ok /\ a = b
                /\ ok => Remaining(a) = Remaining(b) - 1
                /\ ok <=> Remaining(b) > 0

\* a direct call has taken a paid credit after the free extractions ran out
C11_Witness ==
    /\ th[1].kind = "use" /\ th[1].pc = "idle" /\ th[1].ok
    /\ th[1].before.extractions_used = FREE_EXTRACTIONS
    /\ th[1].before.credits > 0
    /\ USER_DATA[th[1].user].credits = th[1].before.credits - 1

\* a direct call has returned False
C11_RefusedReached ==
    th[1].kind = "use" /\ th[1].pc = "idle" /\ ~th[1].ok

\* a direct call has taken a free extraction
C11_FreeReached ==
    /\ th[1].kind = "use" /\ th[1].pc = "idle" /\ th[1].ok
    /\ th[1].before.extractions_used < FREE_EXTRACTIONS

\* the error responses of /extract
ExtractErrors == {503, 402, 400, 500}

\* thread t has answered a /extract request with an error
ExtractFailed(t) ==
    th[t].kind = "extract" /\ th[t].pc = "idle" /\ th[t].resp \in ExtractErrors

\* C12: when a /extract request ends with 503, 402, 400 or the 500 of the
\* exception handler, the user's remaining extractions equal the remaining
\* extractions before the request.
C12_FailedExtractRefunded ==
    \A t \in Threads :
        ExtractFailed(t) =>
            Remaining(UserEntry(USER_DATA, th[t].user)) = Remaining(th[t].before)

\* an extraction paid with a credit has raised and 500 was answered
C12_Witness ==
    /\ ExtractFailed(1) /\ th[1].resp = 500
    /\ th[1].before.extractions_used = FREE_EXTRACTIONS
    /\ th[1].before.credits > 0
    /\ hist[th[1].user].refunded > 0

\* a free extraction has raised and 500 was answered
C12_FreeRefundReached ==
    /\ ExtractFailed(1) /\ th[1].resp = 500
    /\ th[1].before.extractions_used < FREE_EXTRACTIONS

\* /extract has answered 503, 402 and 400
C12_503Reached == ExtractFailed(1) /\ th[1].resp = 503
C12_402Reached == ExtractFailed(1) /\ th[1].resp = 402
C12_400Reached == ExtractFailed(1) /\ th[1].resp = 400

-----------------------------------------------------------------------------
(* Claims about extract_items_from_pdf *)

\* the positions in all_items of the items with this upper-cased description
Group(key) == {j \in 1..Len(all_items) : Upper(all_items[j].description) = key}

\* the least element of a non-empty set of positions
Least(S) == CHOOSE j \in S : \A k \in S : j <= k

\* the earliest position holding the largest qty of a group
FirstMax(key) ==
    Least({j \in Group(key) :
              \A k \in Group(key) : all_items[k].qty <= all_items[j].qty})

\* C13: the list extract_items_from_pdf returns has no two items whose
\* descriptions are equal ignoring case, has one item for every upper-cased
\* description among the extracted items, each being the item of its group
\* with the largest qty (the earliest extracted on a tie), and lists them in
\* the order in which the descriptions first appeared.
C13_Deduplicated ==
    deduped # None =>
        LET out == deduped[1]
            keyOf(i) == Upper(out[i].description)
        IN  /\ \A i, j \in 1..Len(out) : i # j => keyOf(i) # keyOf(j)
            /\ {keyOf(i) : i \in 1..Len(out)} =
               {Upper(all_items[j].description) : j \in 1..Len(all_items)}
            /\ \A i \in 1..Len(out) : out[i] = all_items[FirstMax(keyOf(i))]
            /\ \A i, j \in 1..Len(out) :
                   i < j => Least(Group(keyOf(i))) < Least(Group(keyOf(j)))

\* a list was returned whose group of three spellings ties on the largest qty
\* after a smaller one, and a second description follows
C13_Witness ==
    /\ deduped # None
    /\ Len(all_items) = MaxExtracted
    /\ Len(deduped[1]) = 2
    /\ \E i, j, k \in 1..Len(all_items) :
           /\ i < j /\ j < k
           /\ Upper(all_items[i].description) = Upper(all_items[j].description)
           /\ Upper(all_items[j].description) = Upper(all_items[k].description)
           /\ all_items[i].description # all_items[j].description
           /\ all_items[j].description # all_items[k].description
           /\ all_items[i].qty < all_items[j].qty
           /\ all_items[j].qty = all_items[k].qty
           /\ deduped[1][1] = all_items[j]

-----------------------------------------------------------------------------
(* Claims about the credits under interleaved requests *)

\* the credits a code may grant: its credits once it is used, else none
CodeGrant(code) ==
    IF code \in DOMAIN ACCESS_CODES /\ ACCESS_CODES[code].used
    THEN ACCESS_CODES[code].credits
    ELSE 0

\* the credits a user was granted by redemptions
Redeemed(user_id) == hist[user_id].redeemed

RECURSIVE GrantedTo(_)
\* the credits granted to the users of S together
GrantedTo(S) ==
    IF S = {} THEN 0
    ELSE LET u == CHOOSE x \in S : TRUE IN Redeemed(u) + GrantedTo(S \ {u})

RECURSIVE GrantOf(_)
\* the credits the codes of S may grant together
GrantOf(S) ==
    IF S = {} THEN 0
    ELSE LET c == CHOOSE x \in S : TRUE IN CodeGrant(c) + GrantOf(S \ {c})

\* C14: across any interleaving of /admin/generate-codes and /redeem-code
\* requests each access code grants its credits at most once in total: the
\* credits granted to all users never exceed the credits of the used codes.
C14_GrantedOnce ==
    GrantedTo(Users) <= GrantOf(Codes)

\* C15: in every reachable state, also under interleaved requests of one
\* user, each user's credits are >= 0 and extractions_used <=
\* FREE_EXTRACTIONS, and the extractions started by a user never exceed
\* FREE_EXTRACTIONS plus the credits redeemed plus the refunds received.
C15_CreditBounds ==
    \A u \in DOMAIN USER_DATA :
        /\ USER_DATA[u].credits >= 0
        /\ USER_DATA[u].extractions_used <= FREE_EXTRACTIONS
        /\ hist[u].started <=
               FREE_EXTRACTIONS + hist[u].redeemed + hist[u].refunded

\* extractions_used beyond FREE_EXTRACTIONS
C15_UsedOverFree ==
    \E u \in DOMAIN USER_DATA : USER_DATA[u].extractions_used > FREE_EXTRACTIONS

\* more extractions started than free, redeemed and refunded together, with
\* extractions_used and credits within their bounds
C15_StartedOverGranted ==
    \E u \in DOMAIN USER_DATA :
        /\ USER_DATA[u].credits >= 0
        /\ USER_DATA[u].extractions_used <= FREE_EXTRACTIONS
        /\ hist[u].started >
               FREE_EXTRACTIONS + hist[u].redeemed + hist[u].refunded

=============================================================================
